---- MODULE Spec2Model ----
(***************************************************************************)
(* A model of packages/polyfill-library/lib/UA.js: the UA constructor      *)
(* (canonical-shape shortcut, LRU cache, token stripping, useragent.parse, *)
(* alias resolution), the query methods and UA.normalize.                  *)
(*                                                                         *)
(* A JavaScript string is a sequence of one-character strings, so that the *)
(* regular expressions, toLowerCase, substr and string concatenation of    *)
(* the source are computed character by character.  A version component of *)
(* an Agent is the digit string the source keeps; Number() is applied      *)
(* where the source (or useragent/features) applies it.                    *)
(***************************************************************************)
EXTENDS Integers, Sequences, FiniteSets, TLC

VARIABLES cache, calls, prev, cur, norm, vm

vars == <<cache, calls, prev, cur, norm, vm>>

----------------------------------------------------------------------------
(* Characters and the character classes of the regular expressions *)

LowerLetters ==
    {"a","b","c","d","e","f","g","h","i","j","k","l","m",
     "n","o","p","q","r","s","t","u","v","w","x","y","z"}

UpperToLower ==
    [A |-> "a", B |-> "b", C |-> "c", D |-> "d", E |-> "e", F |-> "f",
     G |-> "g", H |-> "h", I |-> "i", J |-> "j", K |-> "k", L |-> "l",
     M |-> "m", N |-> "n", O |-> "o", P |-> "p", Q |-> "q", R |-> "r",
     S |-> "s", T |-> "t", U |-> "u", V |-> "v", W |-> "w", X |-> "x",
     Y |-> "y", Z |-> "z"]

UpperLetters == DOMAIN UpperToLower

\* \d
DigitChars == {"0","1","2","3","4","5","6","7","8","9"}

\* \w
WordChars == LowerLetters \cup UpperLetters \cup DigitChars \cup {"_"}

\* [\d\.]
DigitDotChars == DigitChars \cup {"."}

OtherChars == {" ", "/", ".", "[", "]", ";", "?", "(", ")", "*"}

\* [^\]]
NotCloseBracket == (WordChars \cup OtherChars) \ {"]"}

Min(S) == CHOOSE x \in S : \A y \in S : x <= y

\* String.prototype.toLowerCase, one character
LowerChar(c) == IF c \in UpperLetters THEN UpperToLower[c] ELSE c

\* String.prototype.toLowerCase
toLowerCase(s) == [i \in 1..Len(s) |-> LowerChar(s[i])]

DigitVal(c) ==
    CASE c = "0" -> 0 [] c = "1" -> 1 [] c = "2" -> 2 [] c = "3" -> 3
      [] c = "4" -> 4 [] c = "5" -> 5 [] c = "6" -> 6 [] c = "7" -> 7
      [] c = "8" -> 8 [] c = "9" -> 9

RECURSIVE Number(_)
\* Number(digits) of a (possibly empty) digit string; Number("") is 0
Number(d) ==
    IF Len(d) = 0 THEN 0
    ELSE Number(SubSeq(d, 1, Len(d) - 1)) * 10 + DigitVal(d[Len(d)])

\* the literal t occurs in s at position i
StartsAt(s, i, t) ==
    /\ i + Len(t) - 1 <= Len(s)
    /\ \A j \in 1..Len(t) : s[i + j - 1] = t[j]

\* the literal t occurs in s at position i, under the i flag
StartsAtCI(s, i, t) ==
    /\ i + Len(t) - 1 <= Len(s)
    /\ \A j \in 1..Len(t) : LowerChar(s[i + j - 1]) = LowerChar(t[j])

\* the length of the greedy match of cls* at position i
RunLen(s, i, cls) ==
    LET stops == {j \in i..Len(s) : s[j] \notin cls}
    IN  IF i > Len(s) THEN 0
        ELSE IF stops = {} THEN Len(s) - i + 1
        ELSE Min(stops) - i

RECURSIVE DottedLen(_, _, _)
\* the length of the match of \d+(\.\d+){n-1} at position i, 0 when none
DottedLen(s, i, n) ==
    LET d == RunLen(s, i, DigitChars)
    IN  IF d = 0 THEN 0
        ELSE IF n = 1 THEN d
        ELSE IF i + d <= Len(s) /\ s[i + d] = "."
             THEN LET r == DottedLen(s, i + d + 1, n - 1)
                  IN  IF r = 0 THEN 0 ELSE d + 1 + r
             ELSE 0

RECURSIVE TrimDots(_, _, _)
\* the longest prefix of the k characters from start that ends in a digit
TrimDots(s, start, k) ==
    IF k = 0 THEN 0
    ELSE IF s[start + k - 1] \in DigitChars THEN k
    ELSE TrimDots(s, start, k - 1)

\* s without the n characters from position i (replace of one match by '')
Remove(s, i, n) == SubSeq(s, 1, i - 1) \o SubSeq(s, i + n, Len(s))

----------------------------------------------------------------------------
(* The token-stripping replaces of the constructor.  A replace without the *)
(* g flag removes the leftmost match only.                                 *)

\* /((CriOS|OPiOS)\/(\d+)\.(\d+)\.(\d+)\.(\d+)|(FxiOS\/(\d+)\.(\d+)))/ at i
iOSTokenLen(s, i) ==
    IF StartsAt(s, i, <<"C","r","i","O","S","/">>) \/ StartsAt(s, i, <<"O","P","i","O","S","/">>)
    THEN LET r == DottedLen(s, i + 6, 4) IN IF r = 0 THEN 0 ELSE 6 + r
    ELSE IF StartsAt(s, i, <<"F","x","i","O","S","/">>)
    THEN LET r == DottedLen(s, i + 6, 2) IN IF r = 0 THEN 0 ELSE 6 + r
    ELSE 0

\* / <name>\/[\d\.]+\d+/i at i: the run of [\d.] is given back until it ends
\* in a digit, and [\d\.]+ keeps at least one character
VersionedTokenLen(s, i, tok) ==
    IF StartsAtCI(s, i, tok)
    THEN LET p == i + Len(tok)
             t == TrimDots(s, p, RunLen(s, p, DigitDotChars))
         IN  IF t >= 2 THEN Len(tok) + t ELSE 0
    ELSE 0

FBTags == { <<"F","B","_","I","A","B">>, <<"F","B","A","N">>, <<"F","B","I","O","S">>, <<"F","B","4","A">> }

\* / \[(FB_IAB|FBAN|FBIOS|FB4A)\/[^\]]+\]/i at i
FBTokenLen(s, i) ==
    LET open == <<" ","[">>
        tags == {t \in FBTags : StartsAtCI(s, i + 2, t \o <<"/">>)}
    IN  IF StartsAt(s, i, open) /\ tags # {}
        THEN LET tag == CHOOSE t \in tags : TRUE
                 p == i + 2 + Len(tag) + 1
                 n == RunLen(s, p, NotCloseBracket)
             IN  IF n >= 1 /\ p + n <= Len(s) /\ s[p + n] = "]"
                 THEN p + n - i + 1
                 ELSE 0
        ELSE 0

StripIOS(s) ==
    LET hits == {i \in 1..Len(s) : iOSTokenLen(s, i) > 0}
    IN  IF hits = {} THEN s
        ELSE Remove(s, Min(hits), iOSTokenLen(s, Min(hits)))

StripVivaldi(s) ==
    LET tok == <<" ","v","i","v","a","l","d","i","/">>
        hits == {i \in 1..Len(s) : VersionedTokenLen(s, i, tok) > 0}
    IN  IF hits = {} THEN s
        ELSE Remove(s, Min(hits), VersionedTokenLen(s, Min(hits), tok))

StripFacebook(s) ==
    LET hits == {i \in 1..Len(s) : FBTokenLen(s, i) > 0}
    IN  IF hits = {} THEN s
        ELSE Remove(s, Min(hits), FBTokenLen(s, Min(hits)))

StripElectron(s) ==
    LET tok == <<" ","E","l","e","c","t","r","o","n","/">>
        hits == {i \in 1..Len(s) : VersionedTokenLen(s, i, tok) > 0}
    IN  IF hits = {} THEN s
        ELSE Remove(s, Min(hits), VersionedTokenLen(s, Min(hits), tok))

\* the four replaces, in the order of the source
Sanitize(s) == StripElectron(StripFacebook(StripVivaldi(StripIOS(s))))

----------------------------------------------------------------------------
(* useragent.Agent, useragent/features and semver, as far as UA.js uses     *)
(* them.  A falsy JavaScript value (undefined, 0, '') is the empty string.  *)

Falsy == << >>

\* new useragent.Agent(family, major, minor, patch): family || 'Other',
\* major || '0', minor || '0', patch || '0'
Agent(family, major, minor, patch) ==
    [family |-> IF family = Falsy THEN <<"O","t","h","e","r">> ELSE family,
     major  |-> IF major = Falsy THEN <<"0">> ELSE major,
     minor  |-> IF minor = Falsy THEN <<"0">> ELSE minor,
     patch  |-> IF patch = Falsy THEN <<"0">> ELSE patch]

\* Agent.prototype.toVersion: major[.minor[.patch]], each part while truthy
toVersion(ua) ==
    IF ua.major = Falsy THEN << >>
    ELSE IF ua.minor = Falsy THEN ua.major
    ELSE IF ua.patch = Falsy THEN ua.major \o <<".">> \o ua.minor
    ELSE ua.major \o <<".">> \o ua.minor
         \o (IF \A i \in 1..Len(ua.patch) : ua.patch[i] \in DigitChars
             THEN <<".">> ELSE <<" ">>)
         \o ua.patch

RECURSIVE SplitFrom(_, _, _)
\* String.prototype.split on ch: the pieces of s from position i on
SplitFrom(s, i, ch) ==
    IF i > Len(s) THEN << << >> >>
    ELSE LET rest == SplitFrom(s, i + 1, ch)
         IN  IF s[i] = ch THEN << << >> >> \o rest
             ELSE << <<s[i]>> \o rest[1] >> \o SubSeq(rest, 2, Len(rest))

\* semverExpr.split('.')
SplitDots(s) == SplitFrom(s, 1, ".")

\* the value a lookup of an absent key gives, and the value an inherited
\* Object.prototype member gives
Undefined == <<"undefined">>
NotAString == <<"function">>

\* x[i], undefined when i is past the end
At(x, i) == IF i <= Len(x) THEN x[i] ELSE Falsy

IsXComponent(c) == c \in { <<"*">>, <<"x">>, <<"X">>, << >> }

\* the leading numeric components of a partial version (1.2, 1, 1.2.*, *)
Partial(s) ==
    LET parts == SplitDots(s)
        n == IF IsXComponent(At(parts, 1)) THEN 0
             ELSE IF IsXComponent(At(parts, 2)) THEN 1
             ELSE IF IsXComponent(At(parts, 3)) THEN 2
             ELSE 3
    IN  [k \in 1..n |-> Number(parts[k])]

\* lexicographic order of two versions <<major, minor, patch>>
VersionLess(v, w) ==
    \/ v[1] < w[1]
    \/ v[1] = w[1] /\ v[2] < w[2]
    \/ v[1] = w[1] /\ v[2] = w[2] /\ v[3] < w[3]

\* Agent.prototype.satisfies(range) of useragent/features:
\* semver.satisfies(Number(major) + '.' + Number(minor) + '.' + Number(patch),
\* range), which is false for a range that is no string.  The range forms
\* are those of the tables and of the requested ranges: >=p, <p and the
\* x-range p, for a partial version p.
Satisfies(ua, range) ==
    LET v == <<Number(ua.major), Number(ua.minor), Number(ua.patch)>>
    IN  IF range \in {Undefined, NotAString} THEN FALSE
        ELSE IF StartsAt(range, 1, <<">","=">>)
        THEN LET p == Partial(SubSeq(range, 3, Len(range)))
                 w == [k \in 1..3 |-> IF k <= Len(p) THEN p[k] ELSE 0]
             IN  Len(p) = 0 \/ ~VersionLess(v, w)
        ELSE IF StartsAt(range, 1, <<"<">>)
        THEN LET p == Partial(SubSeq(range, 2, Len(range)))
                 w == [k \in 1..3 |-> IF k <= Len(p) THEN p[k] ELSE 0]
             IN  Len(p) > 0 /\ VersionLess(v, w)
        ELSE LET p == Partial(range)
             IN  \A k \in 1..Len(p) : v[k] = p[k]

----------------------------------------------------------------------------
(* The tables of UA.js *)

MAX_UA_LEN == 300

\* the threshold of the canonical-shape test (uaString.length < 22)
NormalizedMaxLen == 22

\* Number.MAX_SAFE_INTEGER is 2^53 - 1; the model's integers are 32 bits
\* wide, and every diff the scan computes is far below either value
MAX_SAFE_INTEGER == 2147483647

\* a table as a set of <<key, value>> pairs
Keys(table) == {e[1] : e \in table}
Lookup(table, key) == (CHOOSE e \in table : e[1] = key)[2]

baseLineVersions ==
    { <<<<"i","e">>, <<">","=","7">>>>,
      <<<<"i","e","_","m","o","b">>, <<">","=","8">>>>,
      <<<<"c","h","r","o","m","e">>, <<"*">>>>,
      <<<<"s","a","f","a","r","i">>, <<">","=","4">>>>,
      <<<<"i","o","s","_","s","a","f">>, <<">","=","4">>>>,
      <<<<"i","o","s","_","c","h","r">>, <<">","=","4">>>>,
      <<<<"f","i","r","e","f","o","x">>, <<">","=","3",".","6">>>>,
      <<<<"f","i","r","e","f","o","x","_","m","o","b">>, <<">","=","4">>>>,
      <<<<"a","n","d","r","o","i","d">>, <<">","=","3">>>>,
      <<<<"o","p","e","r","a">>, <<">","=","1","1">>>>,
      <<<<"o","p","_","m","o","b">>, <<">","=","1","0">>>>,
      <<<<"o","p","_","m","i","n","i">>, <<">","=","5">>>>,
      <<<<"b","b">>, <<">","=","6">>>>,
      <<<<"s","a","m","s","u","n","g","_","m","o","b">>, <<">","=","4">>>> }

\* the lowercase \w-only names every object inherits from Object.prototype:
\* the in operator finds them, Object.keys does not
InheritedKeys == { <<"c","o","n","s","t","r","u","c","t","o","r">>, <<"_","_","p","r","o","t","o","_","_">> }

\* aliases of format 1: <detectedfamily>: <targetfamily>
stringAliases ==
    { <<<<"b","l","a","c","k","b","e","r","r","y"," ","w","e","b","k","i","t">>, <<"b","b">>>>,
      <<<<"b","l","a","c","k","b","e","r","r","y">>, <<"b","b">>>>,
      <<<<"p","a","l","e"," ","m","o","o","n"," ","(","f","i","r","e","f","o","x"," ","v","a","r","i","a","n","t",")">>, <<"f","i","r","e","f","o","x">>>>,
      <<<<"p","a","l","e"," ","m","o","o","n">>, <<"f","i","r","e","f","o","x">>>>,
      <<<<"f","i","r","e","f","o","x"," ","m","o","b","i","l","e">>, <<"f","i","r","e","f","o","x","_","m","o","b">>>>,
      <<<<"f","i","r","e","f","o","x"," ","n","a","m","o","r","o","k","a">>, <<"f","i","r","e","f","o","x">>>>,
      <<<<"f","i","r","e","f","o","x"," ","s","h","i","r","e","t","o","k","o">>, <<"f","i","r","e","f","o","x">>>>,
      <<<<"f","i","r","e","f","o","x"," ","m","i","n","e","f","i","e","l","d">>, <<"f","i","r","e","f","o","x">>>>,
      <<<<"f","i","r","e","f","o","x"," ","a","l","p","h","a">>, <<"f","i","r","e","f","o","x">>>>,
      <<<<"f","i","r","e","f","o","x"," ","b","e","t","a">>, <<"f","i","r","e","f","o","x">>>>,
      <<<<"m","i","c","r","o","b">>, <<"f","i","r","e","f","o","x">>>>,
      <<<<"m","o","z","i","l","l","a","d","e","v","e","l","o","p","e","r","p","r","e","v","i","e","w">>, <<"f","i","r","e","f","o","x">>>>,
      <<<<"i","c","e","w","e","a","s","e","l">>, <<"f","i","r","e","f","o","x">>>>,
      <<<<"o","p","e","r","a"," ","t","a","b","l","e","t">>, <<"o","p","e","r","a">>>>,
      <<<<"o","p","e","r","a"," ","m","o","b","i","l","e">>, <<"o","p","_","m","o","b">>>>,
      <<<<"o","p","e","r","a"," ","m","i","n","i">>, <<"o","p","_","m","i","n","i">>>>,
      <<<<"c","h","r","o","m","e"," ","m","o","b","i","l","e">>, <<"c","h","r","o","m","e">>>>,
      <<<<"c","h","r","o","m","e"," ","f","r","a","m","e">>, <<"c","h","r","o","m","e">>>>,
      <<<<"c","h","r","o","m","i","u","m">>, <<"c","h","r","o","m","e">>>>,
      <<<<"h","e","a","d","l","e","s","s","c","h","r","o","m","e">>, <<"c","h","r","o","m","e">>>>,
      <<<<"i","e"," ","m","o","b","i","l","e">>, <<"i","e","_","m","o","b">>>>,
      <<<<"i","e"," ","l","a","r","g","e"," ","s","c","r","e","e","n">>, <<"i","e">>>>,
      <<<<"i","n","t","e","r","n","e","t"," ","e","x","p","l","o","r","e","r">>, <<"i","e">>>>,
      <<<<"e","d","g","e">>, <<"i","e">>>>,
      <<<<"e","d","g","e"," ","m","o","b","i","l","e">>, <<"i","e">>>>,
      <<<<"c","h","r","o","m","e"," ","m","o","b","i","l","e"," ","i","o","s">>, <<"i","o","s","_","c","h","r">>>>,
      <<<<"m","o","b","i","l","e"," ","s","a","f","a","r","i">>, <<"i","o","s","_","s","a","f">>>>,
      <<<<"i","p","h","o","n","e">>, <<"i","o","s","_","s","a","f">>>>,
      <<<<"i","p","h","o","n","e"," ","s","i","m","u","l","a","t","o","r">>, <<"i","o","s","_","s","a","f">>>>,
      <<<<"m","o","b","i","l","e"," ","s","a","f","a","r","i"," ","u","i","w","e","b","v","i","e","w">>, <<"i","o","s","_","s","a","f">>>>,
      <<<<"m","o","b","i","l","e"," ","s","a","f","a","r","i"," ","u","i","/","w","k","w","e","b","v","i","e","w">>, <<"i","o","s","_","s","a","f">>>>,
      <<<<"s","a","m","s","u","n","g"," ","i","n","t","e","r","n","e","t">>, <<"s","a","m","s","u","n","g","_","m","o","b">>>> }

\* aliases of format 2: <detectedfamily>: [<targetfamily>, <targetmajor>, ...]
arrayAliases ==
    { <<<<"p","h","a","n","t","o","m","j","s">>, <<<<"s","a","f","a","r","i">>, <<"5">>>> >> }

\* one entry of an alias of format 3: <semver>: [<targetfamily>, <targetmajor>]
Entry(semverExpr, family, major) ==
    [expr |-> semverExpr, target |-> <<family, major>>]

\* A for-in loop visits integer-like keys first, in ascending order, then the
\* other keys in the order they were written.  In each map below that is the
\* order of the source text.
ucBrowserMap ==
    << Entry(<<"1","0">>, <<"u","c"," ","b","r","o","w","s","e","r">>, <<"0">>),
       Entry(<<"9",".","9",".","*">>, <<"i","e">>, <<"1","0">>) >>

yandexMap ==
    << Entry(<<"1","8",".","9">>, <<"c","h","r","o","m","e">>, <<"6","8">>),
       Entry(<<"1","8",".","7">>, <<"c","h","r","o","m","e">>, <<"6","7">>),
       Entry(<<"1","8",".","6">>, <<"c","h","r","o","m","e">>, <<"6","6">>),
       Entry(<<"1","8",".","5">>, <<"c","h","r","o","m","e">>, <<"6","5">>),
       Entry(<<"1","8",".","4">>, <<"c","h","r","o","m","e">>, <<"6","5">>),
       Entry(<<"1","8",".","3">>, <<"c","h","r","o","m","e">>, <<"6","4">>),
       Entry(<<"1","8",".","2">>, <<"c","h","r","o","m","e">>, <<"6","3">>),
       Entry(<<"1","8",".","1">>, <<"c","h","r","o","m","e">>, <<"6","3">>),
       Entry(<<"1","7",".","1","1">>, <<"c","h","r","o","m","e">>, <<"6","2">>),
       Entry(<<"1","7",".","1","0">>, <<"c","h","r","o","m","e">>, <<"6","1">>),
       Entry(<<"1","7",".","9">>, <<"c","h","r","o","m","e">>, <<"6","0">>),
       Entry(<<"1","7",".","8">>, <<"c","h","r","o","m","e">>, <<"5","9">>),
       Entry(<<"1","7",".","7">>, <<"c","h","r","o","m","e">>, <<"5","9">>),
       Entry(<<"1","7",".","6">>, <<"c","h","r","o","m","e">>, <<"5","8">>),
       Entry(<<"1","7",".","5">>, <<"c","h","r","o","m","e">>, <<"5","7">>),
       Entry(<<"1","7",".","4">>, <<"c","h","r","o","m","e">>, <<"5","7">>),
       Entry(<<"1","7",".","3">>, <<"c","h","r","o","m","e">>, <<"5","6">>),
       Entry(<<"1","7",".","2">>, <<"c","h","r","o","m","e">>, <<"5","5">>),
       Entry(<<"1","7",".","1">>, <<"c","h","r","o","m","e">>, <<"5","5">>),
       Entry(<<"1","6",".","1","1">>, <<"c","h","r","o","m","e">>, <<"5","4">>),
       Entry(<<"1","6",".","1","0">>, <<"c","h","r","o","m","e">>, <<"5","1">>),
       Entry(<<"1","6",".","9">>, <<"c","h","r","o","m","e">>, <<"5","1">>),
       Entry(<<"1","6",".","8">>, <<"c","h","r","o","m","e">>, <<"5","1">>),
       Entry(<<"1","6",".","7">>, <<"c","h","r","o","m","e">>, <<"5","1">>),
       Entry(<<"1","6",".","6">>, <<"c","h","r","o","m","e">>, <<"5","0">>),
       Entry(<<"1","6",".","5">>, <<"c","h","r","o","m","e">>, <<"4","9">>),
       Entry(<<"1","6",".","4">>, <<"c","h","r","o","m","e">>, <<"4","9">>),
       Entry(<<"1","6",".","3">>, <<"c","h","r","o","m","e">>, <<"4","7">>),
       Entry(<<"1","6",".","2">>, <<"c","h","r","o","m","e">>, <<"4","7">>),
       Entry(<<"1","6",".","1">>, <<"c","h","r","o","m","e">>, <<"4","7">>),
       Entry(<<"1","5",".","1","2">>, <<"c","h","r","o","m","e">>, <<"4","6">>),
       Entry(<<"1","5",".","1","1">>, <<"c","h","r","o","m","e">>, <<"4","5">>),
       Entry(<<"1","5",".","1","0">>, <<"c","h","r","o","m","e">>, <<"4","5">>),
       Entry(<<"1","5",".","9">>, <<"c","h","r","o","m","e">>, <<"4","4">>),
       Entry(<<"1","5",".","8">>, <<"c","h","r","o","m","e">>, <<"4","3">>),
       Entry(<<"1","5",".","7">>, <<"c","h","r","o","m","e">>, <<"4","3">>),
       Entry(<<"1","5",".","6">>, <<"c","h","r","o","m","e">>, <<"4","2">>),
       Entry(<<"1","5",".","5">>, <<"c","h","r","o","m","e">>, <<"4","1">>),
       Entry(<<"1","5",".","4">>, <<"c","h","r","o","m","e">>, <<"4","1">>),
       Entry(<<"1","5",".","3">>, <<"c","h","r","o","m","e">>, <<"4","0">>),
       Entry(<<"1","5",".","2">>, <<"c","h","r","o","m","e">>, <<"4","0">>),
       Entry(<<"1","5",".","1">>, <<"c","h","r","o","m","e">>, <<"4","0">>),
       Entry(<<"1","4",".","1","0">>, <<"c","h","r","o","m","e">>, <<"3","7">>),
       Entry(<<"1","4",".","9">>, <<"c","h","r","o","m","e">>, <<"3","6">>),
       Entry(<<"1","4",".","8">>, <<"c","h","r","o","m","e">>, <<"3","6">>),
       Entry(<<"1","4",".","7">>, <<"c","h","r","o","m","e">>, <<"3","5">>),
       Entry(<<"1","4",".","6">>, <<"c","h","r","o","m","e">>, <<"3","4">>),
       Entry(<<"1","4",".","5">>, <<"c","h","r","o","m","e">>, <<"3","4">>),
       Entry(<<"1","4",".","4">>, <<"c","h","r","o","m","e">>, <<"3","3">>),
       Entry(<<"1","4",".","3">>, <<"c","h","r","o","m","e">>, <<"3","2">>),
       Entry(<<"1","4",".","2">>, <<"c","h","r","o","m","e">>, <<"3","2">>),
       Entry(<<"1","3",".","1","2">>, <<"c","h","r","o","m","e">>, <<"3","0">>),
       Entry(<<"1","3",".","1","0">>, <<"c","h","r","o","m","e">>, <<"2","8">>) >>

operaMap ==
    << Entry(<<"2","0">>, <<"c","h","r","o","m","e">>, <<"3","3">>),
       Entry(<<"2","1">>, <<"c","h","r","o","m","e">>, <<"3","4">>),
       Entry(<<"2","2">>, <<"c","h","r","o","m","e">>, <<"3","5">>),
       Entry(<<"2","3">>, <<"c","h","r","o","m","e">>, <<"3","6">>),
       Entry(<<"2","4">>, <<"c","h","r","o","m","e">>, <<"3","7">>),
       Entry(<<"2","5">>, <<"c","h","r","o","m","e">>, <<"3","8">>),
       Entry(<<"2","6">>, <<"c","h","r","o","m","e">>, <<"3","9">>),
       Entry(<<"2","7">>, <<"c","h","r","o","m","e">>, <<"4","0">>),
       Entry(<<"2","8">>, <<"c","h","r","o","m","e">>, <<"4","1">>),
       Entry(<<"2","9">>, <<"c","h","r","o","m","e">>, <<"4","2">>),
       Entry(<<"3","0">>, <<"c","h","r","o","m","e">>, <<"4","3">>),
       Entry(<<"3","1">>, <<"c","h","r","o","m","e">>, <<"4","4">>),
       Entry(<<"3","2">>, <<"c","h","r","o","m","e">>, <<"4","5">>),
       Entry(<<"3","3">>, <<"c","h","r","o","m","e">>, <<"4","6">>),
       Entry(<<"3","4">>, <<"c","h","r","o","m","e">>, <<"4","7">>),
       Entry(<<"3","5">>, <<"c","h","r","o","m","e">>, <<"4","8">>),
       Entry(<<"3","6">>, <<"c","h","r","o","m","e">>, <<"4","9">>),
       Entry(<<"3","7">>, <<"c","h","r","o","m","e">>, <<"5","0">>),
       Entry(<<"3","8">>, <<"c","h","r","o","m","e">>, <<"5","1">>),
       Entry(<<"3","9">>, <<"c","h","r","o","m","e">>, <<"5","2">>),
       Entry(<<"4","0">>, <<"c","h","r","o","m","e">>, <<"5","3">>),
       Entry(<<"4","1">>, <<"c","h","r","o","m","e">>, <<"5","4">>),
       Entry(<<"4","2">>, <<"c","h","r","o","m","e">>, <<"5","5">>),
       Entry(<<"4","3">>, <<"c","h","r","o","m","e">>, <<"5","6">>),
       Entry(<<"4","4">>, <<"c","h","r","o","m","e">>, <<"5","7">>),
       Entry(<<"4","5">>, <<"c","h","r","o","m","e">>, <<"5","8">>),
       Entry(<<"4","6">>, <<"c","h","r","o","m","e">>, <<"5","9">>),
       Entry(<<"4","7">>, <<"c","h","r","o","m","e">>, <<"6","0">>) >>

googlebotMap ==
    << Entry(<<"2",".","1">>, <<"c","h","r","o","m","e">>, <<"4","1">>) >>

\* aliases of format 3: <detectedfamily>: { <semver>: [...], ... }
objectAliases ==
    { <<<<"u","c"," ","b","r","o","w","s","e","r">>, ucBrowserMap>>,
      <<<<"y","a","n","d","e","x"," ","b","r","o","w","s","e","r">>, yandexMap>>,
      <<<<"o","p","e","r","a">>, operaMap>>,
      <<<<"g","o","o","g","l","e","b","o","t">>, googlebotMap>> }

----------------------------------------------------------------------------
(* useragent.parse.  The library is not part of UA.js; it is modelled as   *)
(* useragent works: an ordered list of case-sensitive product-token        *)
(* patterns <token>(\d+)(?:\.(\d+))?(?:\.(\d+))?, the first pattern that   *)
(* matches anywhere in the string giving the family and the version, and   *)
(* new Agent() (family 'Other', version 0.0.0) when none does.             *)

Rule(token, family) == [tok |-> token, family |-> family]

ParseRules ==
    << Rule(<<"V","i","v","a","l","d","i","/">>, <<"V","i","v","a","l","d","i">>),
       Rule(<<"Y","a","B","r","o","w","s","e","r","/">>, <<"Y","a","n","d","e","x"," ","B","r","o","w","s","e","r">>),
       Rule(<<"U","C","B","r","o","w","s","e","r","/">>, <<"U","C"," ","B","r","o","w","s","e","r">>),
       Rule(<<"O","P","R","/">>, <<"O","p","e","r","a">>),
       Rule(<<"E","d","g","e","/">>, <<"E","d","g","e">>),
       Rule(<<"P","h","a","n","t","o","m","J","S","/">>, <<"P","h","a","n","t","o","m","J","S">>),
       Rule(<<"C","r","i","O","S","/">>, <<"C","h","r","o","m","e"," ","M","o","b","i","l","e"," ","i","O","S">>),
       Rule(<<"C","h","r","o","m","e","/">>, <<"C","h","r","o","m","e">>),
       Rule(<<"F","i","r","e","f","o","x","/">>, <<"F","i","r","e","f","o","x">>),
       Rule(<<"M","S","I","E"," ">>, <<"I","E">>),
       Rule(<<"S","a","f","a","r","i","/">>, <<"S","a","f","a","r","i">>) >>

\* the positions at which a rule's pattern matches
RuleHits(s, rule) ==
    {i \in 1..Len(s) :
        StartsAt(s, i, rule.tok) /\ RunLen(s, i + Len(rule.tok), DigitChars) >= 1}

parse(s) ==
    LET matching == {r \in 1..Len(ParseRules) : RuleHits(s, ParseRules[r]) # {}}
    IN  IF matching = {} THEN Agent(Falsy, Falsy, Falsy, Falsy)
        ELSE LET rule == ParseRules[Min(matching)]
                 p1 == Min(RuleHits(s, rule)) + Len(rule.tok)
                 d1 == RunLen(s, p1, DigitChars)
                 d2 == IF StartsAt(s, p1 + d1, <<".">>)
                       THEN RunLen(s, p1 + d1 + 1, DigitChars) ELSE 0
                 p3 == p1 + d1 + 1 + d2
                 d3 == IF d2 >= 1 /\ StartsAt(s, p3, <<".">>)
                       THEN RunLen(s, p3 + 1, DigitChars) ELSE 0
             IN  Agent(rule.family,
                       SubSeq(s, p1, p1 + d1 - 1),
                       IF d2 >= 1 THEN SubSeq(s, p1 + d1 + 1, p1 + d1 + d2)
                       ELSE Falsy,
                       IF d3 >= 1 THEN SubSeq(s, p3 + 1, p3 + d3) ELSE Falsy)

----------------------------------------------------------------------------
(* The constructor *)

\* s.match(/^(\w+)\/(\d+)(?:\.(\d+)(?:\.(\d+))?)?$/i): the match array
\* <<whole, $1, $2, $3, $4>> (JavaScript index k is index k + 1 here, a group
\* that did not take part is undefined), or null
ShapeMatch(s) ==
    LET w  == RunLen(s, 1, WordChars)
        d1 == RunLen(s, w + 2, DigitChars)
        e1 == w + 1 + d1
        d2 == IF StartsAt(s, e1 + 1, <<".">>)
              THEN RunLen(s, e1 + 2, DigitChars) ELSE 0
        e2 == e1 + 1 + d2
        d3 == IF d2 >= 1 /\ StartsAt(s, e2 + 1, <<".">>)
              THEN RunLen(s, e2 + 2, DigitChars) ELSE 0
        e3 == e2 + 1 + d3
        g1 == SubSeq(s, 1, w)
        g2 == SubSeq(s, w + 2, e1)
        g3 == SubSeq(s, e1 + 2, e2)
        g4 == SubSeq(s, e2 + 2, e3)
    IN  IF w >= 1 /\ StartsAt(s, w + 1, <<"/">>) /\ d1 >= 1
        THEN IF e1 = Len(s) THEN <<s, g1, g2, Falsy, Falsy>>
             ELSE IF d2 >= 1 /\ e2 = Len(s) THEN <<s, g1, g2, g3, Falsy>>
             ELSE IF d3 >= 1 /\ e3 = Len(s) THEN <<s, g1, g2, g3, g4>>
             ELSE Falsy
        ELSE Falsy

\* the pass of the loop with a strict comparison of the minor differences
\* (currMinor < minDiff.minor at line 276)
ScanStepStrictMinor(ua, minDiff, e) ==
    IF minDiff.done THEN minDiff
    ELSE LET semverExpr == e.expr
             a == e.target
             target == Agent(a[1], a[2], At(a, 3), At(a, 4))
             parts == SplitDots(semverExpr)
             semverMajor == At(parts, 1)
             semverMinor == At(parts, 2)
             dMajor == Number(ua.major) - Number(semverMajor)
             dMinor == Number(ua.minor) - Number(semverMinor)
             currMajor == IF dMajor < 0 THEN -dMajor ELSE dMajor
             currMinor == IF dMinor < 0 THEN -dMinor ELSE dMinor
         IN  IF Satisfies(ua, semverExpr)
             THEN [minDiff EXCEPT !.lastUa = target, !.done = TRUE]
             ELSE IF currMajor <= minDiff.major
             THEN IF currMinor < minDiff.minor
                  THEN [major |-> currMajor, minor |-> currMinor,
                        lastUa |-> target, done |-> FALSE]
                  ELSE [minDiff EXCEPT !.major = currMajor]
             ELSE minDiff

\* one pass of the for-in loop of lines 260-289 on the entry e; minDiff is
\* the record of the loop, done being set by the break
ScanStep(ua, minDiff, e) ==
    IF minDiff.done THEN minDiff
    ELSE LET semverExpr == e.expr
             a == e.target
             target == Agent(a[1], a[2], At(a, 3), At(a, 4))
             parts == SplitDots(semverExpr)
             semverMajor == At(parts, 1)
             semverMinor == At(parts, 2)
             dMajor == Number(ua.major) - Number(semverMajor)
             dMinor == Number(ua.minor) - Number(semverMinor)
             currMajor == IF dMajor < 0 THEN -dMajor ELSE dMajor
             currMinor == IF dMinor < 0 THEN -dMinor ELSE dMinor
         IN  IF Satisfies(ua, semverExpr)
             THEN [minDiff EXCEPT !.lastUa = target, !.done = TRUE]
             ELSE IF currMajor <= minDiff.major
             THEN IF currMinor <= minDiff.minor
                  THEN [major |-> currMajor, minor |-> currMinor,
                        lastUa |-> target, done |-> FALSE]
                  ELSE [minDiff EXCEPT !.major = currMajor]
             ELSE minDiff

RECURSIVE ScanRange(_, _, _, _, _)
\* the passes lo..hi of the loop, in order, from the loop record minDiff; no
\* pass follows the break (the range is halved so that the evaluation stays
\* shallow)
ScanRange(ua, entries, lo, hi, minDiff) ==
    IF lo > hi THEN minDiff
    ELSE IF lo = hi THEN ScanStep(ua, minDiff, entries[lo])
    ELSE LET mid == (lo + hi) \div 2
             first == ScanRange(ua, entries, lo, mid, minDiff)
         IN  IF first.done THEN first
             ELSE ScanRange(ua, entries, mid + 1, hi, first)

\* the per-version mapping of lines 251-291
VersionMap(ua, entries) ==
    ScanRange(ua, entries, 1, Len(entries),
              [major |-> MAX_SAFE_INTEGER, minor |-> MAX_SAFE_INTEGER,
               lastUa |-> ua, done |-> FALSE]).lastUa

\* lines 233-293: the family is lowercased, then renamed, replaced or mapped
\* (no alias of the table is a function)
ResolveAliases(ua0) ==
    LET ua == [ua0 EXCEPT !.family = toLowerCase(ua0.family)]
    IN  IF ua.family \in Keys(stringAliases)
        THEN [ua EXCEPT !.family = Lookup(stringAliases, ua.family)]
        ELSE IF ua.family \in Keys(arrayAliases)
        THEN LET a == Lookup(arrayAliases, ua.family)
             IN  Agent(a[1], a[2], At(a, 3), At(a, 4))
        ELSE IF ua.family \in Keys(objectAliases)
        THEN VersionMap(ua, Lookup(objectAliases, ua.family))
        ELSE ua

\* the LRU cache: <<key, value>> pairs, the most recently used first
CacheMax == 2

cacheHas(c, key) == \E i \in 1..Len(c) : c[i][1] = key

cacheIndex(c, key) == CHOOSE i \in 1..Len(c) : c[i][1] = key

\* cache.get(key): the value, undefined on a miss
cacheGet(c, key) ==
    IF cacheHas(c, key) THEN c[cacheIndex(c, key)][2] ELSE Falsy

\* the cache after cache.get(key): a hit becomes the most recently used
cacheTouch(c, key) ==
    IF cacheHas(c, key)
    THEN LET i == cacheIndex(c, key)
         IN  <<c[i]>> \o SubSeq(c, 1, i - 1) \o SubSeq(c, i + 1, Len(c))
    ELSE c

\* the cache after cache.set(key, value): the least recently used entries
\* are dropped beyond max
cacheSet(c, key, value) ==
    LET rest == IF cacheHas(c, key)
                THEN LET i == cacheIndex(c, key)
                     IN  SubSeq(c, 1, i - 1) \o SubSeq(c, i + 1, Len(c))
                ELSE c
        all == << <<key, value>> >> \o rest
    IN  SubSeq(all, 1, IF Len(all) > CacheMax THEN CacheMax ELSE Len(all))

\* uaString.substr(0, MAX_UA_LEN)
Truncate(s) == SubSeq(s, 1, IF Len(s) > MAX_UA_LEN THEN MAX_UA_LEN ELSE Len(s))

\* A heavy value that is used more than once is handed on as a parameter of
\* the next step, so that it is written once: the constructor is the chain
\* UA, UALookup, UAOutcome, and FromTuple or Classify and Store.

\* line 208 with the indices of the tuple taken one too low: the whole match
\* (or the empty first slot of a cached tuple) as the family, the family as
\* the major
FromTupleShifted(normalized, c, path) ==
    [ua     |-> Agent(normalized[1], normalized[2], normalized[3], normalized[4]),
     cache  |-> c,
     path   |-> path,
     parsed |-> Falsy]

\* line 208: this.ua = new useragent.Agent(normalized[1], normalized[2],
\* (normalized[3] || 0), (normalized[4] || 0)); nothing is parsed
FromTuple(normalized, c, path) ==
    [ua     |-> Agent(normalized[2], normalized[3], normalized[4], normalized[5]),
     cache  |-> c,
     path   |-> path,
     parsed |-> Falsy]

\* line 294: cache.set(uaString, ["", family, major, minor, patch]), uaString
\* being the stripped string
Store(stripped, c, ua) ==
    [ua     |-> ua,
     cache  |-> cacheSet(c, stripped,
                         <<Falsy, ua.family, ua.major, ua.minor, ua.patch>>),
     path   |-> "parse",
     parsed |-> stripped]

\* lines 228-293: useragent.parse of the stripped string, the patch set to
\* '0', the aliases resolved
Classify(stripped, c) ==
    Store(stripped, c, ResolveAliases([parse(stripped) EXCEPT !.patch = <<"0">>]))

\* lines 207-295: normalized is the match array, else the cached array, else
\* undefined
UAOutcome(uaString, c, path, normalized) ==
    IF normalized # Falsy
    THEN FromTuple(normalized,
                   IF path = "hit" THEN cacheTouch(c, uaString) ELSE c, path)
    ELSE Classify(Sanitize(uaString), c)

\* lines 203-206: the canonical-shape test of a string shorter than 22
\* characters, then cache.get of the string as given (truncated, not stripped)
UALookup(uaString, c, shape) ==
    UAOutcome(uaString, c,
              IF shape # Falsy THEN "shape" ELSE "hit",
              IF shape # Falsy THEN shape ELSE cacheGet(c, uaString))

\* new UA(uaString) with the cache c: the Agent built (this.ua), the cache
\* afterwards, the path taken and the string handed to useragent.parse
UA(uaString, c) ==
    UALookup(Truncate(uaString), c,
             IF Len(Truncate(uaString)) < NormalizedMaxLen
             THEN ShapeMatch(Truncate(uaString)) ELSE Falsy)

----------------------------------------------------------------------------
(* The query methods and UA.normalize *)

getFamily(ua) == ua.family

getVersion(ua) == toVersion(ua)

\* baseLineVersions[family]
getBaseline(ua) ==
    IF ua.family \in Keys(baseLineVersions)
    THEN Lookup(baseLineVersions, ua.family)
    ELSE IF ua.family \in InheritedKeys THEN NotAString
    ELSE Undefined

\* family in baseLineVersions
InBaseLineVersions(ua) ==
    ua.family \in Keys(baseLineVersions) \cup InheritedKeys

\* lines 307-311 without the test of the baseline range
satisfiesWithoutBaseline(ua, range) ==
    /\ Satisfies(ua, range)
    /\ InBaseLineVersions(ua)

\* lines 307-311
satisfies(ua, range) ==
    /\ Satisfies(ua, range)
    /\ InBaseLineVersions(ua)
    /\ Satisfies(ua, getBaseline(ua))

meetsBaseline(ua) == Satisfies(ua, getBaseline(ua))

isUnknown(ua) ==
    \/ ua.family \notin Keys(baseLineVersions)
    \/ ~meetsBaseline(ua)

\* line 328: ua.getFamily() + '/' + ua.getVersion(), r being the outcome of
\* new UA(uaString)
Joined(r) ==
    [out   |-> getFamily(r.ua) \o <<"/">> \o getVersion(r.ua),
     cache |-> r.cache,
     path  |-> r.path]

\* UA.normalize(uaString) with the cache c: the string returned, the cache
\* afterwards and the path the constructor took, if it was called
normalize(uaString, c) ==
    IF ShapeMatch(uaString) # Falsy
    THEN [out |-> toLowerCase(uaString), cache |-> c, path |-> "shortcut"]
    ELSE Joined(UA(uaString, c))

----------------------------------------------------------------------------
(* The state machine.  cache is the process-wide LRU cache; cur and prev   *)
(* record the last two constructor calls, norm the last UA.normalize call, *)
(* vm one run of the per-version mapping on its own.                       *)

MaxCalls == 3

\* a user agent longer than MAX_UA_LEN whose Edge token lies past the cut
LongUA == <<"X"," ","C","h","r","o","m","e","/","6","0",".","0",".","3","1","1","2"," ">> \o [i \in 1..290 |-> "a"] \o <<" ","E","d","g","e","/","1","5",".","1">>

Inputs ==
    { << >>,
      <<"?","?","?">>,
      <<"c","h","r","o","m","e","/","6","0">>,
      <<"c","h","r","o","m","e","/","6","0",".","1",".","5">>,
      <<"I","E","/","9">>,
      <<"i","e","/","6">>,
      <<"i","e","/","7">>,
      <<"c","o","n","s","t","r","u","c","t","o","r","/","1">>,
      <<"X"," ","C","h","r","o","m","e","/","6","0",".","0",".","3","1","1","2">>,
      <<"X"," ","C","h","r","o","m","e","/","6","0",".","0",".","3","1","1","2"," ","V","i","v","a","l","d","i","/","1",".","9">>,
      <<"X"," ","C","h","r","o","m","e","/","6","0",".","0",".","3","1","1","2"," ","[","F","B","A","N","/","F","B","4","A",";","x","]">>,
      <<"X"," ","C","h","r","o","m","e","/","6","0",".","0",".","3","1","1","2"," ","E","l","e","c","t","r","o","n","/","1",".","7">>,
      <<"X"," ","C","r","i","O","S","/","5","6",".","0",".","2","9","2","4",".","7","5"," ","S","a","f","a","r","i","/","9",".","0">>,
      <<"X"," ","C","h","r","o","m","e","/","6","0",".","0",".","1"," ","V","i","v","a","l","d","i","/","1",".","9"," ","V","i","v","a","l","d","i","/","2",".","0">>,
      <<"X"," ","C","h","r","o","m","e","/","6","0",".","0",".","1"," ","V","i","v"," ","E","l","e","c","t","r","o","n","/","1",".","0","a","l","d","i","/","2",".","0">>,
      <<"X"," ","C","h","r","o","m","e","/","6","0",".","0",".","1"," ","V","i","v","a","l","d","i","/","2",".","0">>,
      <<"X"," ","C","h","r","o","m","e","/","4","3",".","0",".","1"," ","O","P","R","/","3","0",".","0">>,
      <<"X"," ","Y","a","B","r","o","w","s","e","r","/","1","4",".","1"," ","C","h","r","o","m","e","/","3","2",".","0",".","1">>,
      <<"X"," ","U","C","B","r","o","w","s","e","r","/","1","0",".","7">>,
      <<"X"," ","P","h","a","n","t","o","m","J","S","/","2",".","1">>,
      <<"X"," ","C","h","r","o","m","e","/","5","2",".","0",".","1"," ","E","d","g","e","/","1","5",".","1">>,
      <<"X"," ","F","i","r","e","f","o","x","/","3",".","5">>,
      <<"X"," ","F","i","r","e","f","o","x","/","3",".","6">>,
      LongUA }

\* the ranges handed to satisfies
RequestedRanges == { <<"*">>, <<">","=","7">>, <<"<","1","0">>, <<"6","0">>, <<">","=","3",".","6">> }

NoCall ==
    [input |-> Falsy, ua |-> Agent(Falsy, Falsy, Falsy, Falsy),
     path |-> "none", parsed |-> Falsy]

NoNorm == [input |-> Falsy, out |-> Falsy, path |-> "none", first |-> Falsy,
           again |-> FALSE]

NoVM == [entries |-> << >>, ua |-> Agent(Falsy, Falsy, Falsy, Falsy),
         result |-> Agent(Falsy, Falsy, Falsy, Falsy), done |-> FALSE]

Init ==
    /\ cache = << >>
    /\ calls = 0
    /\ prev = NoCall
    /\ cur = NoCall
    /\ norm = NoNorm
    /\ vm = NoVM

\* the state after a constructor call on s with outcome r
Constructed(s, r) ==
    /\ cache' = r.cache
    /\ cur' = [input |-> s, ua |-> r.ua, path |-> r.path, parsed |-> r.parsed]
    /\ prev' = cur
    /\ calls' = calls + 1
    /\ UNCHANGED <<norm, vm>>

\* new UA(s)
Construct(s) ==
    /\ calls < MaxCalls
    /\ Constructed(s, UA(s, cache))

Next == \E s \in Inputs : Construct(s)

Spec == Init /\ [][Next]_vars

\* the state after UA.normalize(s) returned r
Normalized(s, r, first, again) ==
    /\ cache' = r.cache
    /\ norm' = [input |-> s, out |-> r.out, path |-> r.path,
                first |-> first, again |-> again]
    /\ calls' = calls + 1
    /\ UNCHANGED <<prev, cur, vm>>

\* UA.normalize(s)
Normalize(s) ==
    /\ calls < MaxCalls
    /\ Normalized(s, normalize(s, cache), Falsy, FALSE)

\* UA.normalize applied to the string the last UA.normalize returned
Renormalize ==
    /\ calls < MaxCalls
    /\ norm.path # "none"
    /\ Normalized(norm.out, normalize(norm.out, cache), norm.out, TRUE)

NextNorm == (\E s \in Inputs : Normalize(s)) \/ Renormalize

SpecNorm == Init /\ [][NextNorm]_vars

\* The per-version mapping on its own: the detected version and the ordered
\* entry list are drawn from bounded sets, and from the maps of the table.
MaxEntries == 3
MinDetectedMajor == 13
MaxDetectedMajor == 19
MaxDetectedMinor == 12

VMExprs == << <<"1","6",".","1">>, <<"1","5",".","1">>, <<"1","5",".","9">>, <<"1","4",".","2">>, <<"1","6">>, <<"1","5">> >>

VMFamilies == << <<"a">>, <<"b">>, <<"c">>, <<"d">>, <<"e">> >>

\* a property name that is an array index: for-in visits these first, in
\* ascending numeric order, before the other names in insertion order
IsIndexKey(expr) == \A i \in 1..Len(expr) : expr[i] \in DigitChars

\* the order in which the for-in loop of line 260 can visit the expressions
ForInOrder(exprs) ==
    \A i, j \in 1..Len(exprs) :
        (i < j /\ IsIndexKey(exprs[j])) =>
            (IsIndexKey(exprs[i]) /\ Number(exprs[i]) < Number(exprs[j]))

\* the ordered lists of up to MaxEntries entries with distinct expressions,
\* in an order the loop can visit them; the k-th entry maps to the family
\* VMFamilies[k]
VMLists ==
    UNION { { [k \in 1..n |-> Entry(VMExprs[f[k]], VMFamilies[k], <<"1">>)] :
                f \in {g \in [1..n -> 1..Len(VMExprs)] :
                         /\ \A i, j \in 1..n : i # j => g[i] # g[j]
                         /\ ForInOrder([k \in 1..n |-> VMExprs[g[k]]])} } :
            n \in 0..(IF MaxEntries > Len(VMFamilies) THEN Len(VMFamilies) ELSE MaxEntries) }

RECURSIVE Digits(_)
\* the decimal digits of a natural number
Digits(n) ==
    IF n < 10 THEN <<CHOOSE c \in DigitChars : DigitVal(c) = n>>
    ELSE Digits(n \div 10) \o <<CHOOSE c \in DigitChars : DigitVal(c) = n % 10>>

InitVM ==
    /\ cache = << >>
    /\ calls = 0
    /\ prev = NoCall
    /\ cur = NoCall
    /\ norm = NoNorm
    /\ \E es \in VMLists \cup {ucBrowserMap, yandexMap, operaMap, googlebotMap} :
       \E M \in MinDetectedMajor..MaxDetectedMajor :
       \E m \in 0..MaxDetectedMinor :
          vm = [entries |-> es,
                ua |-> Agent(<<"d","e","t","e","c","t","e","d">>, Digits(M), Digits(m), <<"0">>),
                result |-> Agent(Falsy, Falsy, Falsy, Falsy),
                done |-> FALSE]

\* lines 251-291 on vm.ua and vm.entries
ScanVM ==
    /\ ~vm.done
    /\ vm' = [vm EXCEPT !.result = VersionMap(vm.ua, vm.entries), !.done = TRUE]
    /\ UNCHANGED <<cache, calls, prev, cur, norm>>

NextVM == ScanVM

SpecVM == InitVM /\ [][NextVM]_vars

----------------------------------------------------------------------------
(* The properties *)

\* s ends with t
EndsWith(s, t) == Len(s) >= Len(t) /\ SubSeq(s, Len(s) - Len(t) + 1, Len(s)) = t

AllIn(s, cls) == \A i \in 1..Len(s) : s[i] \in cls

\* a record of four strings: a non-empty family and three non-empty digit
\* strings
ValidRecord(ua) ==
    /\ DOMAIN ua = {"family", "major", "minor", "patch"}
    /\ Len(ua.family) >= 1 /\ AllIn(ua.family, WordChars \cup OtherChars)
    /\ Len(ua.major) >= 1 /\ AllIn(ua.major, DigitChars)
    /\ Len(ua.minor) >= 1 /\ AllIn(ua.minor, DigitChars)
    /\ Len(ua.patch) >= 1 /\ AllIn(ua.patch, DigitChars)

\* C1: after every constructor call, whichever path it took (canonical
\* shape, cache hit, parse and alias resolution), the patch component of the
\* record is 0 and getVersion() ends in ".0".
C1_PatchZero ==
    cur.path # "none" =>
        /\ Number(cur.ua.patch) = 0
        /\ EndsWith(getVersion(cur.ua), <<".","0">>)

\* C2: two consecutive constructor calls on the same raw string give the same
\* (family, major, minor, patch), and the second one does not call
\* useragent.parse, also when the string holds a token the constructor strips.
C2_CacheTransparency ==
    (calls >= 2 /\ prev.input = cur.input) =>
        /\ cur.ua = prev.ua
        /\ cur.path # "parse"

\* C3: UA.normalize is idempotent: applied to the string it returned, it
\* returns that string again, also when the family holds a space.
C3_NormalizeIdempotent == norm.again => norm.out = norm.first

\* C4: getFamily() is lowercase after every constructor call, whichever path
\* it took, and so is every family stored in the cache.
C4_LowercaseFamily ==
    /\ cur.path # "none" => getFamily(cur.ua) = toLowerCase(getFamily(cur.ua))
    /\ \A i \in 1..Len(cache) : cache[i][2][2] = toLowerCase(cache[i][2][2])

\* s is <family>/<major>.<minor>.<patch> with all three components present
IsFullForm(s) ==
    \E i \in 2..Len(s) :
        /\ s[i] = "/"
        /\ i < Len(s)
        /\ DottedLen(s, i + 1, 3) = Len(s) - i

\* C5: UA.normalize(s) has the full form family/major.minor.patch and equals
\* getFamily() + '/' + getVersion() of new UA(s), also for an input in the
\* canonical shape whose minor or patch is left out.
C5_NormalizeForm ==
    norm.path # "none" =>
        /\ IsFullForm(norm.out)
        /\ norm.out = Joined(UA(norm.input, cache)).out

\* C6: satisfies(r) is true only if the version satisfies r, the family is a
\* key of the baseline table and the version satisfies that family's
\* baseline; isUnknown() is true exactly when the family is no key or the
\* version fails the baseline; so satisfies(r) is never true of an unknown
\* record and satisfies('*') is the negation of isUnknown(); ie 6 is unknown,
\* ie 7 is not.
C6_BaselineGate ==
    \A ua \in {c.ua : c \in {x \in {prev, cur} : x.path # "none"}} :
        LET isKey == ua.family \in Keys(baseLineVersions)
            meets == isKey /\ Satisfies(ua, Lookup(baseLineVersions, ua.family))
        IN  /\ \A r \in RequestedRanges :
                  satisfies(ua, r) => Satisfies(ua, r) /\ isKey /\ meets
            /\ isUnknown(ua) <=> (~isKey \/ ~meets)
            /\ \A r \in RequestedRanges : satisfies(ua, r) => ~isUnknown(ua)
            /\ satisfies(ua, <<"*">>) <=> ~isUnknown(ua)
            /\ (ua.family = <<"i","e">> /\ Number(ua.major) = 6) => isUnknown(ua)
            /\ (ua.family = <<"i","e">> /\ Number(ua.major) = 7) => ~isUnknown(ua)

\* ie 6 was classified and is unknown, then ie 7, which satisfies >=7
C6_Witness ==
    /\ prev.input = <<"i","e","/","6">> /\ isUnknown(prev.ua)
    /\ cur.input = <<"i","e","/","7">> /\ satisfies(cur.ua, <<">","=","7">>) /\ ~isUnknown(cur.ua)

\* the string useragent.parse was, or had been, given for the call c
ParsedFor(c) == IF c.path = "hit" THEN Truncate(c.input) ELSE c.parsed

MajorDiff(ua, e) ==
    LET d == Number(ua.major) - Number(At(SplitDots(e.expr), 1))
    IN  IF d < 0 THEN -d ELSE d

MinorDiff(ua, e) ==
    LET d == Number(ua.minor) - Number(At(SplitDots(e.expr), 2))
    IN  IF d < 0 THEN -d ELSE d

\* the record an entry maps to
TargetOf(e) == Agent(e.target[1], e.target[2], Falsy, Falsy)

Max(S) == CHOOSE x \in S : \A y \in S : x >= y

\* The documented scan, stated entry by entry instead of as a loop.  The best
\* major-diff so far is the least majorDiff of the entries visited; the best
\* minor-diff so far is the least minorDiff of the entries visited that met
\* the major condition (the minor is compared only within that condition).
RefScan(ua, entries) ==
    LET n == Len(entries)
        exact == {k \in 1..n : Satisfies(ua, entries[k].expr)}
        passMajor(k) ==
            \A j \in 1..(k - 1) : MajorDiff(ua, entries[k]) <= MajorDiff(ua, entries[j])
        replaces(k) ==
            /\ passMajor(k)
            /\ \A j \in 1..(k - 1) :
                  passMajor(j) => MinorDiff(ua, entries[k]) <= MinorDiff(ua, entries[j])
    IN  IF exact # {} THEN TargetOf(entries[Min(exact)])
        ELSE IF n = 0 THEN ua
        ELSE TargetOf(entries[Max({k \in 1..n : replaces(k)})])

Closer(ua, entries, j, k) ==
    \/ MajorDiff(ua, entries[j]) < MajorDiff(ua, entries[k])
    \/ /\ MajorDiff(ua, entries[j]) = MajorDiff(ua, entries[k])
       /\ MinorDiff(ua, entries[j]) < MinorDiff(ua, entries[k])

\* C9: when the map has an entry and the detected version satisfies no
\* expression, the adopted entry is a closest one: no entry has a strictly
\* smaller majorDiff, nor the same majorDiff and a strictly smaller minorDiff.
C9_NearestIsClosest ==
    (/\ vm.done
     /\ Len(vm.entries) >= 1
     /\ \A k \in 1..Len(vm.entries) : ~Satisfies(vm.ua, vm.entries[k].expr))
    => \E k \in 1..Len(vm.entries) :
          /\ TargetOf(vm.entries[k]) = vm.result
          /\ \A j \in 1..Len(vm.entries) : ~Closer(vm.ua, vm.entries, j, k)

\* C10: the record a constructor call gives does not depend on the calls made
\* before it: it is the record the same call gives on an empty cache.
C10_HistoryIndependent ==
    cur.path # "none" => cur.ua = UA(cur.input, << >>).ua

====
